---------------------------- MODULE Spec2Model ----------------------------
(***************************************************************************)
(* Model of the numerical core of gas-spread-arb:                          *)
(*   src/src/signals.py     zscore, generate_signal                        *)
(*   src/src/backtester.py  backtest_spread                                *)
(*   src/src/metrics.py     sharpe, max_drawdown, summarize_backtest       *)
(*                                                                         *)
(* A float is a pair <<n, d>> with d >= 0 in lowest terms: the rational    *)
(* n/d when d > 0, +inf = <<1,0>>, -inf = <<-1,0>> and NaN = <<0,0>>.      *)
(* Arithmetic is exact (no rounding) and follows the IEEE rules for the    *)
(* three special values.  Signed zeros are not distinguished.              *)
(***************************************************************************)
EXTENDS Integers, Sequences, FiniteSets, TLC

\* ------------------------------------------------------------------ bounds

\* Longest spread series handed to generate_signal, besides the scenarios.
MaxLen == 3

\* Timestamps 1..MaxT index the series handed to backtest_spread, besides the
\* scenarios.
MaxT == 3

\* -------------------------------------------------------------- float layer

NaN == <<0, 0>>

AbsInt(n) == IF n < 0 THEN -n ELSE n
SignInt(n) == IF n < 0 THEN -1 ELSE IF n > 0 THEN 1 ELSE 0

RECURSIVE GCD(_, _)
GCD(a, b) == IF b = 0 THEN a ELSE GCD(b, a % b)

\* The float n/d for d >= 0, reduced; d = 0 gives an infinity or NaN.
Norm(n, d) ==
    IF d = 0 THEN <<SignInt(n), 0>>
    ELSE LET g == GCD(AbsInt(n), d) IN <<n \div g, d \div g>>

F(n) == <<n, 1>>
Q(n, d) == Norm(n, d)

IsNaN(x) == x = NaN
IsFinite(x) == x[2] > 0

FNeg(x) == <<-x[1], x[2]>>
FAbs(x) == <<AbsInt(x[1]), x[2]>>
\* Sums and products are reduced before they are multiplied out, so that the
\* intermediate integers stay small.
FAdd(a, b) ==
    IF a[2] = 0 /\ b[2] = 0
    THEN (IF a = b THEN a ELSE NaN)
    ELSE IF a[2] = 0 THEN a
    ELSE IF b[2] = 0 THEN b
    ELSE LET g == GCD(a[2], b[2])
         IN Norm(a[1] * (b[2] \div g) + b[1] * (a[2] \div g),
                 (a[2] \div g) * b[2])
FSub(a, b) == FAdd(a, FNeg(b))
FMul(a, b) ==
    IF a[2] = 0 \/ b[2] = 0 THEN <<SignInt(a[1]) * SignInt(b[1]), 0>>
    ELSE LET g == GCD(AbsInt(a[1]), b[2])
             h == GCD(AbsInt(b[1]), a[2])
         IN Norm((a[1] \div g) * (b[1] \div h), (a[2] \div h) * (b[2] \div g))
\* a / b is a * (1 / b), the reciprocal of 0 being +inf.
FDiv(a, b) ==
    IF IsNaN(b) THEN NaN
    ELSE FMul(a, <<(IF b[1] < 0 THEN -1 ELSE 1) * b[2], AbsInt(b[1])>>)

\* Comparisons: every comparison with NaN is false, as in IEEE 754.
FGt(a, b) == ~IsNaN(a) /\ ~IsNaN(b) /\ a[1] * b[2] > b[1] * a[2]
FLt(a, b) == ~IsNaN(a) /\ ~IsNaN(b) /\ a[1] * b[2] < b[1] * a[2]
FGe(a, b) == ~IsNaN(a) /\ ~IsNaN(b) /\ a[1] * b[2] >= b[1] * a[2]
FLe(a, b) == ~IsNaN(a) /\ ~IsNaN(b) /\ a[1] * b[2] <= b[1] * a[2]
FEq(a, b) == ~IsNaN(a) /\ ~IsNaN(b) /\ a = b

\* --------------------------------------------------------- signals.py inputs

\* Spread levels a series may hold; NaN is the missing-value marker.
SpreadVals == {NaN, F(8), F(10), F(12), F(14)}
Mus == {F(9), F(10)}
Sigmas == {NaN, F(0), F(1), F(2), F(-2)}
EntryZs == {F(-1), F(1), F(2)}
ExitZs == {F(0), Q(1, 4), Q(1, 2), F(1), F(3)}

\* The series of the specification's worked scenarios.
BoundarySpread == <<F(10), F(10), F(12), F(12), F(8), F(8)>>
HysteresisSpread == <<F(10), F(12), F(14), F(12), Q(21, 2), Q(103, 10)>>
Scenarios == {BoundarySpread, HysteresisSpread}

SpreadSeries == UNION {[1..n -> SpreadVals] : n \in 0..MaxLen} \cup Scenarios

\* ------------------------------------------------------------- signals.py

\* Mutant of zscore: the guard also rejects a negative sigma.
zscore_NonPositiveGuard(s, m, sg) ==
    IF FLe(sg, F(0)) \/ IsNaN(sg)
    THEN [t \in DOMAIN s |-> NaN]
    ELSE [t \in DOMAIN s |-> FDiv(FSub(s[t], m), sg)]

\* Mutant of zscore: the guard misses sigma == 0.
zscore_NoZeroGuard(s, m, sg) ==
    IF IsNaN(sg)
    THEN [t \in DOMAIN s |-> NaN]
    ELSE [t \in DOMAIN s |-> FDiv(FSub(s[t], m), sg)]

\* zscore(spread, mu, sigma)
zscore(s, m, sg) ==
    IF FEq(sg, F(0)) \/ IsNaN(sg)
    THEN [t \in DOMAIN s |-> NaN]
    ELSE [t \in DOMAIN s |-> FDiv(FSub(s[t], m), sg)]

\* Mutant of FromFlat: the entry comparisons are not strict.
FromFlat_NonStrict(z, ez) ==
    IF FGe(z, ez) THEN -1
    ELSE IF FLe(z, FNeg(ez)) THEN 1
    ELSE 0

\* The branch of the loop body taken from a flat position.
FromFlat(z, ez) ==
    IF FGt(z, ez) THEN -1
    ELSE IF FLt(z, FNeg(ez)) THEN 1
    ELSE 0

\* Mutant of FromOpen: leaving the band reverses the position.
FromOpen_Reverse(pos, z, xz) ==
    IF FLt(FAbs(z), xz) THEN 0
    ELSE IF (pos = 1 /\ FGt(z, xz)) \/ (pos = -1 /\ FLt(z, FNeg(xz))) THEN -pos
    ELSE pos

\* Mutant of FromOpen: the exit comparison is turned around.
FromOpen_ExitOutside(pos, z, xz) ==
    IF FGt(FAbs(z), xz) THEN 0 ELSE pos

\* Mutant of FromOpen: the exit comparison is not strict.
FromOpen_NonStrict(pos, z, xz) ==
    IF FLe(FAbs(z), xz) THEN 0 ELSE pos

\* The branch of the loop body taken from an open position.
FromOpen(pos, z, xz) ==
    IF FLt(FAbs(z), xz) THEN 0 ELSE pos

\* ---------------------------------------------------------- pandas helpers

\* A Series is a function from its index (a finite set of timestamps) to
\* values; a column of an aligned frame is a sequence in index order.

RECURSIVE SortedSeq(_)
SortedSeq(S) ==
    IF S = {} THEN <<>>
    ELSE LET m == CHOOSE x \in S : \A y \in S : x <= y
         IN <<m>> \o SortedSeq(S \ {m})

\* a.align(b, join="inner"): both restricted to the common index, in order.
Align(a, b) ==
    LET index == SortedSeq(DOMAIN a \cap DOMAIN b)
    IN [index |-> index,
        left  |-> [i \in 1..Len(index) |-> a[index[i]]],
        right |-> [i \in 1..Len(index) |-> b[index[i]]]]

\* Series.diff(): NaN first, then the difference with the previous element.
Diff(col) ==
    [i \in 1..Len(col) |-> IF i = 1 THEN NaN ELSE FSub(col[i], col[i - 1])]

\* Series.shift(1): NaN first, then the previous element.
Shift1(col) ==
    [i \in 1..Len(col) |-> IF i = 1 THEN NaN ELSE col[i - 1]]

\* Series.fillna(value) with a scalar.
FillNa(col, value) ==
    [i \in 1..Len(col) |-> IF IsNaN(col[i]) THEN value ELSE col[i]]

\* Series.fillna(other) with a series on the same index.
FillNaFrom(col, other) ==
    [i \in 1..Len(col) |-> IF IsNaN(col[i]) THEN other[i] ELSE col[i]]

\* Series.ne(0).astype(float): NaN != 0 is true.
NeZero(col) ==
    [i \in 1..Len(col) |-> IF IsNaN(col[i]) \/ col[i] # F(0) THEN F(1) ELSE F(0)]

\* int64 -> float64, as shift and diff do to an integer column.
AsFloat(col) == [i \in 1..Len(col) |-> F(col[i])]

\* Series.cumsum(): the running total, NaN entries skipped and left NaN.
RECURSIVE RunningTotal(_, _)
RunningTotal(col, i) ==
    IF i = 0 THEN F(0)
    ELSE IF IsNaN(col[i]) THEN RunningTotal(col, i - 1)
    ELSE FAdd(RunningTotal(col, i - 1), col[i])

CumSum(col) ==
    [i \in 1..Len(col) |-> IF IsNaN(col[i]) THEN NaN ELSE RunningTotal(col, i)]

\* ----------------------------------------------------------- backtester.py

\* d_spread = spread_aligned.diff().fillna(0.0)
DSpread(spread_aligned) == FillNa(Diff(spread_aligned), F(0))

\* Mutant of Position: the one-period lag is dropped.
Position_NoLag(signal_aligned) == AsFloat(signal_aligned)

\* position = signal_aligned.shift(1).fillna(0.0)
Position(signal_aligned) == FillNa(Shift1(AsFloat(signal_aligned)), F(0))

\* Mutant of SignalChange: the first element is filled with 0.
SignalChange_ZeroFill(signal_aligned) ==
    FillNa(Diff(AsFloat(signal_aligned)), F(0))

\* signal_change = signal_aligned.diff().fillna(signal_aligned)
SignalChange(signal_aligned) ==
    FillNaFrom(Diff(AsFloat(signal_aligned)), AsFloat(signal_aligned))

\* costs = turnover_events.astype(float) * float(cost_per_turnover)
Costs(signal_aligned, c) ==
    LET turnover_events == NeZero(SignalChange(signal_aligned))
    IN [i \in 1..Len(signal_aligned) |-> FMul(turnover_events[i], c)]

\* Mutant of Equity: the running sum restarts at every timestamp.
Equity_NoCarry(net_pnl) == net_pnl

\* equity = net_pnl.cumsum()
Equity(net_pnl) == CumSum(net_pnl)

\* backtest_spread(spread, signal, cost_per_turnover): the returned frame.
backtest_spread(sp, sig, c) ==
    LET al == Align(sp, sig)
        spread_aligned == al.left
        signal_aligned == al.right
        n == Len(al.index)
        d_spread == DSpread(spread_aligned)
        position == Position(signal_aligned)
        gross_pnl == [i \in 1..n |-> FMul(position[i], d_spread[i])]
        costs == Costs(signal_aligned, c)
        net_pnl == [i \in 1..n |-> FSub(gross_pnl[i], costs[i])]
    IN [index |-> al.index,
        spread |-> spread_aligned,
        signal |-> signal_aligned,
        position |-> position,
        gross_pnl |-> gross_pnl,
        costs |-> costs,
        net_pnl |-> net_pnl,
        equity |-> Equity(net_pnl)]

\* ------------------------------------------------- backtester.py inputs

BtSpreadVals == {NaN, F(10), F(12)}
SignalVals == {-1, 0, 1}
CostVals == {F(0), Q(1, 50)}

SeriesOver(vals) == UNION {[I -> vals] : I \in SUBSET (1..MaxT)}

\* The cost accounting scenario, on two spread paths.
CostSignal == <<0, 1, 1, -1, -1, 0>>
CostSpreadGap == <<F(10), F(12), NaN, F(12), F(10), F(10)>>

BtSpreadSeries == SeriesOver(BtSpreadVals) \cup {BoundarySpread, CostSpreadGap}
BtSignalSeries == SeriesOver(SignalVals) \cup {CostSignal}

\* The frame before backtest_spread has returned.
NoFrame == [index |-> <<>>]

\* --------------------------------------------------------------- metrics.py

\* Series.dropna()
DropNa(col) == SelectSeq(col, LAMBDA x : ~IsNaN(x))

\* Series.sum(): NaN entries are skipped; 0 for an empty series.
RECURSIVE SeriesSum(_, _)
SeriesSum(col, i) ==
    IF i = 0 THEN F(0)
    ELSE IF IsNaN(col[i]) THEN SeriesSum(col, i - 1)
    ELSE FAdd(SeriesSum(col, i - 1), col[i])

\* Series.mean() of a series without NaN.
Mean(col) == FDiv(SeriesSum(col, Len(col)), F(Len(col)))

\* Series.std(ddof=0) squared: the population variance.
PopVariance(col) ==
    LET m == Mean(col)
    IN Mean([i \in 1..Len(col) |-> FMul(FSub(col[i], m), FSub(col[i], m))])

\* sharpe(pnl), periods_per_year = 252.  The value carried is the signed
\* square sharpe * |sharpe| = 252 * mean * |mean| / variance, which orders and
\* vanishes as the Sharpe ratio does and stays rational.
sharpe(pnl) ==
    LET p == DropNa(pnl)
    IN IF p = <<>> THEN F(0)
       ELSE LET mean == Mean(p)
                var == PopVariance(p)
            IN IF var = F(0) THEN F(0)
               ELSE FMul(F(252), FDiv(FMul(mean, FAbs(mean)), var))

\* Series.cummax()
RECURSIVE CumMaxAt(_, _)
CumMaxAt(col, i) ==
    IF i = 1 THEN col[1]
    ELSE LET peak == CumMaxAt(col, i - 1)
         IN IF FGt(col[i], peak) THEN col[i] ELSE peak

\* Series.min() of a non-empty series.
RECURSIVE MinUpTo(_, _)
MinUpTo(col, i) ==
    IF i = 1 THEN col[1]
    ELSE LET low == MinUpTo(col, i - 1)
         IN IF FLt(col[i], low) THEN col[i] ELSE low

\* max_drawdown(equity)
max_drawdown(equity) ==
    LET e == DropNa(equity)
    IN IF e = <<>> THEN F(0)
       ELSE LET drawdown == [i \in 1..Len(e) |-> FSub(e[i], CumMaxAt(e, i))]
            IN MinUpTo(drawdown, Len(drawdown))

\* Mutant of Trades: the first element is filled with 0.
Trades_ZeroFill(sig) ==
    LET signal_change == FillNa(Diff(AsFloat(sig)), F(0))
    IN SeriesSum(NeZero(signal_change), Len(sig))

\* signal_change = signal.diff().fillna(signal); signal_change.ne(0).sum()
Trades(sig) ==
    LET signal_change == FillNaFrom(Diff(AsFloat(sig)), AsFloat(sig))
    IN SeriesSum(NeZero(signal_change), Len(sig))

\* Mutant of WinRatio: no nonzero entry gives 0.
WinRatio_ZeroOnEmpty(net_pnl) ==
    LET non_zero_pnl == SelectSeq(net_pnl, LAMBDA x : IsNaN(x) \/ x # F(0))
    IN IF non_zero_pnl = <<>> THEN F(0)
       ELSE Mean([i \in 1..Len(non_zero_pnl) |->
                    IF FGt(non_zero_pnl[i], F(0)) THEN F(1) ELSE F(0)])

\* non_zero_pnl = net_pnl[net_pnl != 0]; nan if empty, else the mean of
\* (non_zero_pnl > 0).
WinRatio(net_pnl) ==
    LET non_zero_pnl == SelectSeq(net_pnl, LAMBDA x : IsNaN(x) \/ x # F(0))
    IN IF non_zero_pnl = <<>> THEN NaN
       ELSE Mean([i \in 1..Len(non_zero_pnl) |->
                    IF FGt(non_zero_pnl[i], F(0)) THEN F(1) ELSE F(0)])

\* summarize_backtest(bt, name): the returned summary.
summarize_backtest(frame) ==
    [sharpe |-> sharpe(frame.net_pnl),
     max_drawdown |-> max_drawdown(frame.equity),
     total_pnl |-> SeriesSum(frame.net_pnl, Len(frame.net_pnl)),
     trades |-> Trades(frame.signal),
     win_ratio |-> WinRatio(frame.net_pnl)]

\* The summary before summarize_backtest has returned.
NoSummary == [trades |-> NaN]

VARIABLES
    spread, mu, sigma, entry_z, exit_z,   \* arguments of generate_signal
    signal,                               \* signal series (returned / argument)
    cost_per_turnover,                    \* argument of backtest_spread
    bt,                                   \* frame returned by backtest_spread
    summary,                              \* returned by summarize_backtest
    pc,                                   \* "call" | "loop" | "done"
    zscores,                              \* local zscores
    positions,                            \* local positions (a list)
    current_pos,                          \* local current_pos
    branch                                \* branch taken by the last iteration

vars == <<spread, mu, sigma, entry_z, exit_z, signal, cost_per_turnover, bt,
          summary, pc, zscores, positions, current_pos, branch>>

args == <<spread, mu, sigma, entry_z, exit_z>>
btvars == <<cost_per_turnover, bt, summary>>

Init ==
    /\ spread \in SpreadSeries
    /\ mu \in Mus
    /\ sigma \in Sigmas
    /\ entry_z \in EntryZs
    /\ exit_z \in ExitZs
    /\ pc = "call"
    /\ zscores = <<>>
    /\ positions = <<>>
    /\ current_pos = 0
    /\ branch = "none"
    /\ signal = <<>>
    /\ cost_per_turnover = F(0)
    /\ bt = NoFrame
    /\ summary = NoSummary

\* generate_signal, up to the loop.
Enter ==
    /\ pc = "call"
    /\ zscores' = zscore(spread, mu, sigma)
    /\ positions' = <<>>
    /\ current_pos' = 0
    /\ pc' = "loop"
    /\ UNCHANGED <<args, branch, signal, btvars>>

\* The z-score the next iteration reads.
NextZ == zscores[Len(positions) + 1]

Iterating == pc = "loop" /\ Len(positions) < Len(zscores)

\* Mutant of StepNaN: a missing z-score is recorded as flat.
StepNaN_RecordFlat ==
    /\ Iterating
    /\ IsNaN(NextZ)
    /\ positions' = Append(positions, 0)
    /\ branch' = "nan"
    /\ UNCHANGED <<args, pc, zscores, current_pos, signal, btvars>>

\* An iteration on a missing z-score.
StepNaN ==
    /\ Iterating
    /\ IsNaN(NextZ)
    /\ positions' = Append(positions, current_pos)
    /\ branch' = "nan"
    /\ UNCHANGED <<args, pc, zscores, current_pos, signal, btvars>>

\* An iteration from a flat position.
StepFlat ==
    /\ Iterating
    /\ ~IsNaN(NextZ)
    /\ current_pos = 0
    /\ current_pos' = FromFlat(NextZ, entry_z)
    /\ positions' = Append(positions, current_pos')
    /\ branch' = "flat"
    /\ UNCHANGED <<args, pc, zscores, signal, btvars>>

\* An iteration from an open position.
StepOpen ==
    /\ Iterating
    /\ ~IsNaN(NextZ)
    /\ current_pos # 0
    /\ current_pos' = FromOpen(current_pos, NextZ, exit_z)
    /\ positions' = Append(positions, current_pos')
    /\ branch' = "open"
    /\ UNCHANGED <<args, pc, zscores, signal, btvars>>

\* The return of generate_signal: (signal_series, zscores).
Return ==
    /\ pc = "loop"
    /\ Len(positions) = Len(zscores)
    /\ signal' = positions
    /\ pc' = "done"
    /\ UNCHANGED <<args, zscores, positions, current_pos, branch, btvars>>

Next == Enter \/ StepNaN \/ StepFlat \/ StepOpen \/ Return

Spec == Init /\ [][Next]_vars

\* ------------------------------------------------ claims on generate_signal

\* The position held before the iteration on timestamp t.
Before(t) == IF t = 1 THEN 0 ELSE positions[t - 1]

\* The timestamps the loop has processed.
Processed == 1..Len(positions)

\* C1: the signal never steps from +1 to -1 or from -1 to +1 between two
\* consecutive timestamps; two timestamps of opposite sign always have a
\* timestamp with signal 0 between them.
C1_NoDirectReversal ==
    /\ \A t \in Processed : positions[t] \in {-1, 0, 1}
    /\ \A t \in Processed : Before(t) * positions[t] # -1
    /\ \A t \in Processed : \A u \in Processed :
          (t < u /\ positions[t] * positions[u] = -1)
              => \E k \in Processed : t < k /\ k < u /\ positions[k] = 0
    /\ pc = "done" => signal = positions

\* A finished run that was long, went flat and then went short.
C1_Witness ==
    /\ pc = "done"
    /\ Len(signal) = 3
    /\ signal = <<1, 0, -1>>

\* C2 as stated: from FLAT on a present z-score, SHORT exactly when
\* z > entry_z, LONG exactly when z < -entry_z, FLAT otherwise.
C2_AsStated ==
    \A t \in Processed :
        (Before(t) = 0 /\ ~IsNaN(zscores[t])) =>
            /\ positions[t] = -1 <=> FGt(zscores[t], entry_z)
            /\ positions[t] = 1 <=> FLt(zscores[t], FNeg(entry_z))
            /\ positions[t] = 0 <=>
                  (~FGt(zscores[t], entry_z) /\ ~FLt(zscores[t], FNeg(entry_z)))

\* C2 as amended: from FLAT on a present z-score, SHORT exactly when
\* z > entry_z, LONG exactly when z < -entry_z and not z > entry_z (the SHORT
\* test comes first; the two tests overlap only for a negative entry_z), FLAT
\* otherwise; z equal to entry_z or -entry_z never enters, and the boundary
\* scenario stays flat throughout.
C2_EntryFromFlat ==
    /\ \A t \in Processed :
          (Before(t) = 0 /\ ~IsNaN(zscores[t])) =>
              /\ positions[t] = -1 <=> FGt(zscores[t], entry_z)
              /\ positions[t] = 1 <=>
                    (FLt(zscores[t], FNeg(entry_z)) /\ ~FGt(zscores[t], entry_z))
              /\ positions[t] = 0 <=>
                    (~FGt(zscores[t], entry_z) /\ ~FLt(zscores[t], FNeg(entry_z)))
              /\ zscores[t] \in {entry_z, FNeg(entry_z)} /\ ~FLt(entry_z, F(0))
                    => positions[t] = 0
    /\ (/\ spread = BoundarySpread /\ mu = F(10) /\ sigma = F(2)
        /\ entry_z = F(1) /\ exit_z = Q(1, 4) /\ pc = "done")
           => /\ zscores = <<F(0), F(0), F(1), F(1), F(-1), F(-1)>>
              /\ signal = <<0, 0, 0, 0, 0, 0>>

\* The boundary scenario has run to its end.
C2_Witness ==
    /\ spread = BoundarySpread /\ mu = F(10) /\ sigma = F(2)
    /\ entry_z = F(1) /\ exit_z = Q(1, 4)
    /\ pc = "done"
    /\ Len(signal) = 6

\* C3: from LONG or SHORT on a present z-score, FLAT exactly when
\* |z| < exit_z, otherwise the prior state; the hysteresis scenario gives
\* FLAT, FLAT, SHORT, SHORT, SHORT, FLAT.
C3_ExitFromOpen ==
    /\ \A t \in Processed :
          (Before(t) # 0 /\ ~IsNaN(zscores[t])) =>
              /\ positions[t] = 0 <=> FLt(FAbs(zscores[t]), exit_z)
              /\ positions[t] # 0 => positions[t] = Before(t)
    /\ (/\ spread = HysteresisSpread /\ mu = F(10) /\ sigma = F(1)
        /\ entry_z = F(2) /\ exit_z = Q(1, 2) /\ pc = "done")
           => /\ zscores = <<F(0), F(2), F(4), F(2), Q(1, 2), Q(3, 10)>>
              /\ signal = <<0, 0, -1, -1, -1, 0>>

\* The hysteresis scenario has run to its end.
C3_Witness ==
    /\ spread = HysteresisSpread /\ mu = F(10) /\ sigma = F(1)
    /\ entry_z = F(2) /\ exit_z = Q(1, 2)
    /\ pc = "done"
    /\ signal[3] = -1 /\ signal[6] = 0

\* C4: on a missing z-score the signal is the state held before (0 at the
\* first timestamp) and the iteration takes neither the entry nor the exit
\* branch.
C4_HoldOnMissing ==
    /\ \A t \in Processed : IsNaN(zscores[t]) => positions[t] = Before(t)
    /\ (pc = "loop" /\ Len(positions) > 0 /\ IsNaN(zscores[Len(positions)]))
          => branch = "nan" /\ current_pos = Before(Len(positions))

\* An open position was held across a missing z-score under a usable sigma.
C4_Witness ==
    /\ pc = "loop"
    /\ Len(positions) = 2
    /\ ~IsNaN(zscores[1]) /\ IsNaN(zscores[2])
    /\ positions = <<-1, -1>>

\* The z-score (spread[t] - mu) / sigma, stated without the division.
IsQuotient(z, s, m, sg) ==
    IF IsNaN(s) THEN IsNaN(z) ELSE IsFinite(z) /\ FMul(z, sg) = FSub(s, m)

\* C9 as stated: the z-scores are all missing when sigma <= 0 or sigma is
\* NaN, and (spread[t] - mu) / sigma otherwise.
C9_AsStated ==
    pc # "call" =>
        /\ DOMAIN zscores = DOMAIN spread
        /\ IF IsNaN(sigma) \/ ~FGt(sigma, F(0))
           THEN \A t \in DOMAIN zscores : IsNaN(zscores[t])
           ELSE \A t \in DOMAIN zscores :
                    IsQuotient(zscores[t], spread[t], mu, sigma)

\* C9 as amended: the z-scores are all missing when sigma is zero or NaN,
\* and (spread[t] - mu) / sigma otherwise, a negative sigma included.
C9_ZScore ==
    pc # "call" =>
        /\ DOMAIN zscores = DOMAIN spread
        /\ IF IsNaN(sigma) \/ sigma = F(0)
           THEN \A t \in DOMAIN zscores : IsNaN(zscores[t])
           ELSE \A t \in DOMAIN zscores :
                    IsQuotient(zscores[t], spread[t], mu, sigma)

\* z-scores were computed under a negative sigma and are not missing.
C9_Witness ==
    /\ pc = "done"
    /\ sigma = F(-2)
    /\ spread = <<F(12), F(8), NaN>>
    /\ zscores = <<F(-1), F(1), NaN>>

\* C10: with sigma zero or NaN the call never stops short of its return,
\* the signal is 0 at every timestamp and it covers the whole index.
C10_InertOnNoDispersion ==
    (IsNaN(sigma) \/ sigma = F(0)) =>
        /\ pc # "done" => ENABLED Next
        /\ \A t \in Processed : positions[t] = 0
        /\ current_pos = 0
        /\ pc = "done" =>
              /\ DOMAIN signal = DOMAIN spread
              /\ \A t \in DOMAIN signal : signal[t] = 0

\* A run with sigma = 0 on a spread away from mu has returned.
C10_Witness ==
    /\ pc = "done"
    /\ sigma = F(0)
    /\ spread = <<F(14), F(8), F(10)>>
    /\ signal = <<0, 0, 0>>

\* The z-scores are one present value at every timestamp.
ConstantZ ==
    /\ pc # "call"
    /\ Len(zscores) >= 1
    /\ ~IsNaN(zscores[1])
    /\ \A t \in DOMAIN zscores : zscores[t] = zscores[1]

\* The timestamps at which the signal changed.
Changes == {t \in Processed : positions[t] # Before(t)}

\* z-scores tried against the thresholds: the quarters from -4 to 4.
ZProbe == {Q(k, 4) : k \in -16..16}

\* z enters SHORT from FLAT and leaves SHORT for FLAT.
Flips(z) == FromFlat(z, entry_z) = -1 /\ FromOpen(-1, z, exit_z) = 0

\* No z enters a position from FLAT and also leaves that position; a
\* constant z path changes the signal at most once.
NoFlipBand ==
    /\ pc = "done" =>
          \A z \in ZProbe :
              FromFlat(z, entry_z) # 0
                  => FromOpen(FromFlat(z, entry_z), z, exit_z) # 0
    /\ ConstantZ => Cardinality(Changes) <= 1

\* On a constant z path inside the flip band the signal is SHORT at the
\* first, third, ... timestamp and FLAT at the others.
AlternatesInBand ==
    (ConstantZ /\ FGt(zscores[1], entry_z) /\ FLt(FAbs(zscores[1]), exit_z)) =>
        \A t \in Processed : positions[t] = IF t % 2 = 1 THEN -1 ELSE 0

\* Whatever the thresholds are, the loop goes on to its return and the
\* returned signal covers the index.
RunsOnAnyThresholds ==
    /\ pc = "loop" => ENABLED (StepNaN \/ StepFlat \/ StepOpen \/ Return)
    /\ pc = "done" => DOMAIN signal = DOMAIN spread

\* C13 as stated: with exit_z <= entry_z no z both enters and exits and a
\* constant z path changes the signal at most once; with exit_z > entry_z
\* some z with entry_z < z < exit_z makes a constant path alternate between
\* SHORT and FLAT; such parameters are accepted.
C13_AsStated ==
    /\ FLe(exit_z, entry_z) => NoFlipBand
    /\ (pc = "done" /\ FGt(exit_z, entry_z)) =>
          \E z \in ZProbe : FGt(z, entry_z) /\ FLt(z, exit_z) /\ Flips(z)
    /\ AlternatesInBand
    /\ RunsOnAnyThresholds

\* C13 as amended: as stated, but the alternating z values exist when
\* exit_z > entry_z and exit_z > 0, and are those with z > entry_z and
\* |z| < exit_z; with exit_z > entry_z and exit_z <= 0 no z ever exits.
C13_Hysteresis ==
    /\ FLe(exit_z, entry_z) => NoFlipBand
    /\ (pc = "done" /\ FGt(exit_z, entry_z) /\ FGt(exit_z, F(0))) =>
          /\ \E z \in ZProbe : FGt(z, entry_z) /\ FLt(z, exit_z) /\ Flips(z)
          /\ \A z \in ZProbe :
                Flips(z) <=> (FGt(z, entry_z) /\ FLt(FAbs(z), exit_z))
    /\ (FGt(exit_z, entry_z) /\ FLe(exit_z, F(0))) =>
          /\ pc = "done" => \A z \in ZProbe : ~Flips(z)
          /\ \A t \in Processed :
                (Before(t) # 0 /\ ~IsNaN(zscores[t])) => positions[t] = Before(t)
    /\ AlternatesInBand
    /\ RunsOnAnyThresholds

\* A constant z = 2 under entry_z = 1 < exit_z = 3 flipped at every step.
C13_Witness ==
    /\ pc = "done"
    /\ entry_z = F(1) /\ exit_z = F(3)
    /\ zscores = <<F(2), F(2), F(2)>>
    /\ signal = <<-1, 0, -1>>

\* ------------------------------------------------ backtest_spread as a call

InitBacktest ==
    /\ spread \in BtSpreadSeries
    /\ signal \in BtSignalSeries
    /\ cost_per_turnover \in CostVals
    /\ bt = NoFrame
    /\ summary = NoSummary
    /\ pc = "bt_call"
    /\ mu = NaN
    /\ sigma = NaN
    /\ entry_z = F(2)
    /\ exit_z = Q(1, 2)
    /\ zscores = <<>>
    /\ positions = <<>>
    /\ current_pos = 0
    /\ branch = "none"

Backtest ==
    /\ pc = "bt_call"
    /\ bt' = backtest_spread(spread, signal, cost_per_turnover)
    /\ pc' = "bt_done"
    /\ UNCHANGED <<args, signal, cost_per_turnover, summary, zscores,
                   positions, current_pos, branch>>

\* summarize_backtest on the frame backtest_spread returned.
Summarize ==
    /\ pc = "bt_done"
    /\ summary' = summarize_backtest(bt)
    /\ pc' = "summarized"
    /\ UNCHANGED <<args, signal, cost_per_turnover, bt, zscores, positions,
                   current_pos, branch>>

NextBacktest == Backtest \/ Summarize

SpecBacktest == InitBacktest /\ [][NextBacktest]_vars

\* ------------------------------------------------ claims on backtest_spread

\* The common index of the two arguments.
Common == DOMAIN spread \cap DOMAIN signal

\* The number of rows of the returned frame.
Rows == Len(bt.index)

\* The signal at the previous timestamp of the aligned index (0 before the
\* first), read from the argument.
SignalBefore(i) == IF i = 1 THEN 0 ELSE signal[bt.index[i - 1]]

RECURSIVE SumSeq(_)
SumSeq(col) == IF col = <<>> THEN F(0) ELSE FAdd(col[1], SumSeq(Tail(col)))

\* The returned frame is indexed by the inner join, in increasing order.
OnInnerJoin ==
    /\ {bt.index[i] : i \in 1..Rows} = Common
    /\ \A i \in 1..Rows : \A j \in 1..Rows : i < j => bt.index[i] < bt.index[j]
    /\ \A i \in 1..Rows : bt.signal[i] = signal[bt.index[i]]
    /\ \A i \in 1..Rows : bt.spread[i] = spread[bt.index[i]]

\* C5: over the inner-joined index, position[0] = 0 and position[t] =
\* signal[t-1]; gross_pnl[t] is zero wherever the previous signal is flat,
\* whatever signal[t] and the later signals are.
C5_LagInvariant ==
    pc = "bt_done" =>
        /\ OnInnerJoin
        /\ \A i \in 1..Rows : bt.position[i] = F(SignalBefore(i))
        /\ \A i \in 1..Rows : SignalBefore(i) = 0 => bt.gross_pnl[i] = F(0)
        /\ \A i \in 1..Rows :
              bt.gross_pnl[i] \in
                  {FMul(F(SignalBefore(i)), d) :
                     d \in {F(0), FSub(bt.spread[i], bt.spread[IF i = 1 THEN 1 ELSE i - 1])}}

\* A frame whose index drops a timestamp only the spread has, holding the
\* earlier signal over a later change of signal.
C5_Witness ==
    /\ pc = "bt_done"
    /\ DOMAIN spread = {1, 2, 3}
    /\ DOMAIN signal = {1, 3}
    /\ bt.index = <<1, 3>>
    /\ bt.signal = <<1, -1>>
    /\ bt.position = <<F(0), F(1)>>

\* C6: costs[t] = c where signal[t] differs from signal[t-1] (from 0 at the
\* first timestamp) and 0 elsewhere, which reads nothing of the spread but
\* its index; the cost scenario has turnovers at indices 1, 3, 5 (0-based)
\* and total cost 3 * c.
C6_CostPerTurnover ==
    pc = "bt_done" =>
        /\ OnInnerJoin
        /\ \A i \in 1..Rows :
              bt.costs[i] = IF bt.signal[i] # SignalBefore(i)
                            THEN cost_per_turnover ELSE F(0)
        /\ (signal = CostSignal /\ DOMAIN spread = 1..6) =>
              /\ bt.costs = <<F(0), cost_per_turnover, F(0), cost_per_turnover,
                              F(0), cost_per_turnover>>
              /\ SumSeq(bt.costs) = FMul(F(3), cost_per_turnover)

\* The cost scenario, on a spread path with a gap, at 0.02 per turnover.
C6_Witness ==
    /\ pc = "bt_done"
    /\ signal = CostSignal
    /\ spread = CostSpreadGap
    /\ cost_per_turnover = Q(1, 50)
    /\ SumSeq(bt.costs) = Q(3, 50)

\* C7: net_pnl[t] = gross_pnl[t] - costs[t]; equity[0] = net_pnl[0];
\* equity[t] = equity[t-1] + net_pnl[t]; the last equity is the sum of
\* net_pnl.
C7_EquityAdditivity ==
    pc = "bt_done" =>
        /\ \A i \in 1..Rows :
              /\ ~IsNaN(bt.net_pnl[i])
              /\ FAdd(bt.net_pnl[i], bt.costs[i]) = bt.gross_pnl[i]
        /\ Rows > 0 => bt.equity[1] = bt.net_pnl[1]
        /\ \A i \in 2..Rows :
              bt.equity[i] = FAdd(bt.equity[i - 1], bt.net_pnl[i])
        /\ Rows > 0 => bt.equity[Rows] = SumSeq(bt.net_pnl)
        /\ Len(bt.equity) = Rows /\ Len(bt.net_pnl) = Rows

\* A three-row frame with a charged turnover and a gross gain.
C7_Witness ==
    /\ pc = "bt_done"
    /\ Rows = 3
    /\ cost_per_turnover = Q(1, 50)
    /\ bt.gross_pnl[3] = F(2)
    /\ bt.costs[2] = Q(1, 50)
    /\ bt.equity[3] = Q(99, 50)

\* C8 as stated: gross_pnl[t] = position[t] * d_spread[t] with
\* d_spread[0] = 0 and d_spread[t] = spread[t] - spread[t-1] for t > 0, for
\* spread series that may hold missing values.
C8_AsStated ==
    pc = "bt_done" =>
        \A i \in 1..Rows :
            bt.gross_pnl[i] =
                FMul(bt.position[i],
                     IF i = 1 THEN F(0) ELSE FSub(bt.spread[i], bt.spread[i - 1]))

\* ---------------------------------------------- claims on summarize_backtest

\* The rows at which backtest_spread saw a turnover: the signal differs from
\* the signal at the previous timestamp (from 0 at the first).
TurnoverRows == {i \in 1..Rows : bt.signal[i] # SignalBefore(i)}

\* C11: summarize_backtest reports as trades the number of turnover events
\* backtest_spread charged: with c > 0 the number of timestamps with a
\* nonzero cost, and sum(costs) = trades * c.
C11_TradesAreChargedTurnovers ==
    pc = "summarized" =>
        /\ summary.trades = F(Cardinality(TurnoverRows))
        /\ FGt(cost_per_turnover, F(0)) =>
              summary.trades =
                  F(Cardinality({i \in 1..Rows : bt.costs[i] # F(0)}))
        /\ SumSeq(bt.costs) = FMul(summary.trades, cost_per_turnover)

\* The cost scenario summarized: three trades, 0.06 charged.
C11_Witness ==
    /\ pc = "summarized"
    /\ signal = CostSignal
    /\ DOMAIN spread = 1..6
    /\ cost_per_turnover = Q(1, 50)
    /\ summary.trades = F(3)
    /\ SumSeq(bt.costs) = Q(3, 50)

\* The rows with a nonzero and with a positive net_pnl.
NonZeroRows == {i \in 1..Rows : bt.net_pnl[i] # F(0)}
WinningRows == {i \in 1..Rows : FGt(bt.net_pnl[i], F(0))}

\* C12: win_ratio is (entries of net_pnl > 0) / (entries of net_pnl != 0)
\* when an entry is nonzero, and NaN, never 0, when every entry is zero or
\* the frame is empty.
C12_WinRatio ==
    pc = "summarized" =>
        IF NonZeroRows = {}
        THEN IsNaN(summary.win_ratio) /\ summary.win_ratio # F(0)
        ELSE /\ FMul(summary.win_ratio, F(Cardinality(NonZeroRows)))
                   = F(Cardinality(WinningRows))
             /\ IsFinite(summary.win_ratio)

\* A summarized frame with one winning and one losing entry among three.
C12_Witness ==
    /\ pc = "summarized"
    /\ Rows = 3
    /\ Cardinality(NonZeroRows) = 2
    /\ Cardinality(WinningRows) = 1
    /\ summary.win_ratio = Q(1, 2)

=============================================================================
